---- MODULE Spec2Model ----
(***************************************************************************)
(* Model of the macros of command_attr (src/command_attr/src/lib.rs):      *)
(* #[command] and #[help] under Spec, group! and group_options! under      *)
(* SpecGroup.  One run of a macro is one behaviour: the declaration is     *)
(* parsed, its option annotations are processed in source order by the     *)
(* loop of the macro, and the tail of the macro validates the function and *)
(* emits the static records, or returns the first compile error.           *)
(*                                                                         *)
(* Strings are TLA+ strings ("a" \o "b" is concatenation).  Option<T> is a *)
(* sequence of length 0 (None) or 1 (Some).  A character outside ASCII is  *)
(* written by its code point, "<U+2167>".                                  *)
(***************************************************************************)
EXTENDS Naturals, Sequences, FiniteSets, TLC

VARIABLES
    macro,      \* which macro runs: "command", "help", "group", "group_options"
    attr,       \* the macro's own argument tokens (`attr`, lib.rs:122)
    fun,        \* the annotated function as parsed into CommandFun (a group's block)
    pc,         \* position of the macro: "parse", "attributes", "finish", "done"
    idx,        \* index of the next annotation of fun.attributes
    name,       \* `_name`, the command's name (lib.rs:125)
    options,    \* `options`, the Options / HelpOptions being built
    defaults,   \* the value `options` started from (Options::default())
    out         \* the TokenStream returned: an error, or the emitted items

vars == <<macro, attr, fun, pc, idx, name, options, defaults, out>>

(***************************************************************************)
(* Bounds of the model.                                                    *)
(***************************************************************************)
\* Longest annotation sequence drawn from the annotation universes.
MaxAttrs == 2
\* Longest identifier list given to required_permissions.
MaxPerms == 3

(***************************************************************************)
(* Value model: what parse_values yields for one annotation.               *)
(***************************************************************************)
Str(s)   == [t |-> "str",   s |-> s,  n |-> 0]
Int(n)   == [t |-> "int",   s |-> "", n |-> n]
Bool(b)  == [t |-> "bool",  s |-> IF b THEN "true" ELSE "false", n |-> 0]
Id(s)    == [t |-> "ident", s |-> s,  n |-> 0]

Flag        == [shape |-> "flag",   items |-> <<>>]
Scalar(x)   == [shape |-> "scalar", items |-> <<x>>]
List(xs)    == [shape |-> "list",   items |-> xs]

\* One annotation `#[name]`, `#[name = v]` or `#[name(v, ...)]`; parses is
\* FALSE for an attribute parse_values rejects.
Attribute(n, v) == [name |-> n, parses |-> TRUE,  value |-> v]
Malformed(n)    == [name |-> n, parses |-> FALSE, value |-> Flag]

None    == <<>>
Some(x) == <<x>>

(***************************************************************************)
(* Errors.  NoError stands for Ok(()).                                     *)
(***************************************************************************)
Err(k, d) == [kind |-> k, detail |-> d]
NoError   == Err("none", "")

RECURSIVE SeqMap(_, _)
\* the s fields of a sequence of items
SeqMap(xs, i) == IF i > Len(xs) THEN <<>> ELSE <<xs[i].s>> \o SeqMap(xs, i + 1)

Strings(xs) == SeqMap(xs, 1)

AllOf(xs, t) == \A i \in 1..Len(xs) : xs[i].t = t

(***************************************************************************)
(* Typed option coercion (AttributeOption::parse).  Each returns whether   *)
(* the value has the shape and the coerced value.                          *)
(***************************************************************************)
\* bool: presence, or an explicit boolean literal
bool_ok(v)    == v.shape = "flag" \/ (v.shape = "scalar" /\ v.items[1].t = "bool")
bool_parse(v) == IF v.shape = "flag" THEN TRUE ELSE v.items[1].s = "true"

\* String: one string literal
String_ok(v)    == v.shape = "scalar" /\ v.items[1].t = "str"
String_parse(v) == v.items[1].s

\* Option<String>: String, or nothing passed (the empty string)
OptionString_ok(v)    == v.shape = "flag" \/ String_ok(v)
OptionString_parse(v) == IF v.shape = "flag" THEN Some("") ELSE Some(v.items[1].s)

\* u8 / usize: one integer literal
num_ok(v)    == v.shape = "scalar" /\ v.items[1].t = "int"
num_parse(v) == v.items[1].n

\* Ident: one identifier
Ident_ok(v)    == v.shape = "scalar" /\ v.items[1].t = "ident"
Ident_parse(v) == v.items[1].s

\* Vec<Ident>: a list of identifiers
VecIdent_ok(v)    == v.shape = "list" /\ AllOf(v.items, "ident")
VecIdent_parse(v) == Strings(v.items)

\* Vec<String>: a list of string literals
VecString_ok(v)    == v.shape = "list" /\ AllOf(v.items, "str")
VecString_parse(v) == Strings(v.items)

(***************************************************************************)
(* Permission resolver.                                                    *)
(***************************************************************************)
PermissionNames == {"CREATE_INVITE", "KICK_MEMBERS", "BAN_MEMBERS", "ADMINISTRATOR"}

\* Permissions::from_str: the bit constant of a name, None for any other name
Permissions_from_str(s) ==
    CASE s = "CREATE_INVITE" -> Some(1)
      [] s = "KICK_MEMBERS"  -> Some(2)
      [] s = "BAN_MEMBERS"   -> Some(4)
      [] s = "ADMINISTRATOR" -> Some(8)
      [] OTHER               -> None

\* Number of bits of the model's bitfields (the table's constants fit)
PermBits == 4

RECURSIVE BitOrFrom(_, _, _)
BitOrFrom(a, b, k) ==
    IF k >= PermBits THEN 0
    ELSE (IF (a \div (2 ^ k)) % 2 = 1 \/ (b \div (2 ^ k)) % 2 = 1 THEN 2 ^ k ELSE 0)
         + BitOrFrom(a, b, k + 1)

\* a | b
BitOr(a, b) == BitOrFrom(a, b, 0)

\* `permissions.0 = p.0`: the bits assigned instead of added
AddPermission_assign(permissions, p) == p

\* `permissions.0 |= p.0`
AddPermission(permissions, p) == BitOr(permissions, p)

RECURSIVE ResolvePermissions(_, _, _)
\* The loop `for perm in p` of required_permissions, from element i on with
\* `permissions` accumulated so far: the first unknown name returns the
\* error, otherwise the bits are added together.
ResolvePermissions(p, i, permissions) ==
    IF i > Len(p) THEN [err |-> NoError, bits |-> permissions]
    ELSE LET r == Permissions_from_str(p[i])
         IN  IF r = None
             THEN [err |-> Err("InvalidPermission", p[i]), bits |-> permissions]
             ELSE ResolvePermissions(p, i + 1, AddPermission(permissions, r[1]))

(***************************************************************************)
(* Result of one step on the options being built.                          *)
(***************************************************************************)
Ok(opts)      == [err |-> NoError, options |-> opts]
Fail(e, opts) == [err |-> e, options |-> opts]

\* A value of the wrong shape for option n: parse reports the option.
ShapeMismatch(n, opts) == Fail(Err("ShapeMismatch", n), opts)

(***************************************************************************)
(* Option schemas: the type of each field reached through match_options!.  *)
(***************************************************************************)
FieldType(n) ==
    CASE n \in {"min_args", "max_args"}                           -> "OptionU8"
      [] n \in {"aliases", "allowed_roles"}                       -> "VecString"
      [] n \in {"help_available", "owners_only", "owner_privilege"} -> "bool"
      [] n = "only_in"                                            -> "OnlyIn"
      [] n = "sub"                                                -> "VecIdent"
      [] n \in {"usage", "strikethrough_commands_tip_in_dm",
                "strikethrough_commands_tip_in_guild"}            -> "OptionString"
      [] n \in {"embed_error_colour", "embed_success_colour"}     -> "Ident"
      [] n = "max_levenshtein_distance"                           -> "usize"
      [] OTHER                                                    -> "String"

\* OnlyIn: "guilds" or "dms"
OnlyIn_ok(v) == String_ok(v) /\ v.items[1].s \in {"guilds", "dms"}

Coerce_ok(ty, v) ==
    CASE ty = "OptionU8"     -> num_ok(v)
      [] ty = "usize"        -> num_ok(v)
      [] ty = "VecString"    -> VecString_ok(v)
      [] ty = "VecIdent"     -> VecIdent_ok(v)
      [] ty = "bool"         -> bool_ok(v)
      [] ty = "OnlyIn"       -> OnlyIn_ok(v)
      [] ty = "OptionString" -> OptionString_ok(v)
      [] ty = "Ident"        -> Ident_ok(v)
      [] OTHER               -> String_ok(v)

Coerce(ty, v) ==
    CASE ty = "OptionU8"     -> Some(num_parse(v))
      [] ty = "usize"        -> num_parse(v)
      [] ty = "VecString"    -> VecString_parse(v)
      [] ty = "VecIdent"     -> VecIdent_parse(v)
      [] ty = "bool"         -> bool_parse(v)
      [] ty = "OnlyIn"       -> String_parse(v)
      [] ty = "OptionString" -> OptionString_parse(v)
      [] ty = "Ident"        -> Ident_parse(v)
      [] OTHER               -> String_parse(v)

\* match_options! with a `_` arm that lets the annotation pass
match_options_ignore(table, n, v, opts) ==
    IF n \in table
    THEN IF Coerce_ok(FieldType(n), v)
         THEN Ok([opts EXCEPT ![n] = Coerce(FieldType(n), v)])
         ELSE ShapeMismatch(n, opts)
    ELSE Ok(opts)

\* match_options!: `stringify!($name) => $options.$name.parse(...)` for the
\* names of the table, and the `_` arm returning "invalid attribute: {name}".
match_options(table, n, v, opts) ==
    IF n \in table
    THEN IF Coerce_ok(FieldType(n), v)
         THEN Ok([opts EXCEPT ![n] = Coerce(FieldType(n), v)])
         ELSE ShapeMismatch(n, opts)
    ELSE Fail(Err("InvalidAttribute", n), opts)

(***************************************************************************)
(* #[command]: the arms of `match name` (lib.rs:143-216).                  *)
(***************************************************************************)
\* Options::default()
Options_default ==
    [checks |-> <<>>, bucket |-> None, aliases |-> <<>>, description |-> None,
     usage |-> None, example |-> None, min_args |-> None, max_args |-> None,
     allowed_roles |-> <<>>, required_permissions |-> 0,
     help_available |-> TRUE, only_in |-> "none", owners_only |-> FALSE,
     owner_privilege |-> TRUE, sub |-> <<>>]

\* The names matched before the table.
CommandSpecial ==
    {"num_args", "required_permissions", "checks", "bucket", "description",
     "usage", "example"}

\* The names listed in match_options! of command.
CommandTable ==
    {"min_args", "max_args", "aliases", "usage", "allowed_roles",
     "help_available", "only_in", "owners_only", "owner_privilege", "sub"}

\* num_args assigning the minimum only
num_args_min_only(opts, args) == [opts EXCEPT !.min_args = Some(args)]

\* "num_args" => min_args and max_args are both Some(args)
num_args(opts, args) == [opts EXCEPT !.min_args = Some(args), !.max_args = Some(args)]

\* required_permissions adding to the bits of the option instead of starting
\* from Permissions::default()
required_permissions_accumulate(opts, p) ==
    LET r == ResolvePermissions(p, 1, opts.required_permissions)
    IN  IF r.err # NoError THEN Fail(r.err, opts)
        ELSE Ok([opts EXCEPT !.required_permissions = r.bits])

\* "required_permissions" => a fresh Permissions::default(), the names
\* resolved and added together, and the result assigned to the option.
required_permissions(opts, p) ==
    LET r == ResolvePermissions(p, 1, 0)
    IN  IF r.err # NoError THEN Fail(r.err, opts)
        ELSE Ok([opts EXCEPT !.required_permissions = r.bits])

\* One iteration of `for attribute in &fun.attributes` of command.
command_attribute(opts, a) ==
    LET v == a.value
    IN  IF ~a.parses THEN Fail(Err("Parse", a.name), opts)
        ELSE CASE a.name = "num_args" ->
                    IF num_ok(v) THEN Ok(num_args(opts, num_parse(v)))
                    ELSE ShapeMismatch(a.name, opts)
               [] a.name = "required_permissions" ->
                    IF VecIdent_ok(v) THEN required_permissions(opts, VecIdent_parse(v))
                    ELSE ShapeMismatch(a.name, opts)
               [] a.name = "checks" ->
                    IF VecIdent_ok(v) THEN Ok([opts EXCEPT !.checks = VecIdent_parse(v)])
                    ELSE ShapeMismatch(a.name, opts)
               [] a.name \in {"bucket", "description", "usage", "example"} ->
                    IF String_ok(v) THEN Ok([opts EXCEPT ![a.name] = Some(String_parse(v))])
                    ELSE ShapeMismatch(a.name, opts)
               [] OTHER -> match_options(CommandTable, a.name, v, opts)

(***************************************************************************)
(* #[help]: the arms of `match name` (lib.rs:422-512) and the generated    *)
(* strikethrough tip.                                                      *)
(***************************************************************************)
\* HelpBehaviour::from_str
HelpBehaviour_from_str(s) ==
    CASE s = "strike"  -> Some("Strike")
      [] s = "hide"    -> Some("Hide")
      [] s = "nothing" -> Some("Nothing")
      [] OTHER         -> None

\* The four behaviour options matched before the table.
HelpSpecial == {"lacking_role", "lacking_permissions", "lacking_ownership", "wrong_channel"}

\* The names listed in match_options! of help.
HelpTable ==
    {"suggestion_text", "no_help_available_text", "usage_label",
     "usage_sample_label", "ungrouped_label", "grouped_label", "aliases_label",
     "description_label", "guild_only_text", "checks_label", "dm_only_text",
     "dm_and_guild_text", "available_text", "command_not_found_text",
     "individual_command_tip", "group_prefix",
     "strikethrough_commands_tip_in_dm", "strikethrough_commands_tip_in_guild",
     "embed_error_colour", "embed_success_colour", "max_levenshtein_distance"}

\* HelpOptions::default(), with `tip` the default of the two strikethrough tips
HelpOptions_default(tip) ==
    [suggestion_text |-> "Did you mean {}?",
     no_help_available_text |-> "**Error**: No help available.",
     usage_label |-> "Usage", usage_sample_label |-> "Sample usage",
     ungrouped_label |-> "Ungrouped", grouped_label |-> "Group",
     aliases_label |-> "Aliases", description_label |-> "Description",
     guild_only_text |-> "Only in guilds", checks_label |-> "Checks",
     dm_only_text |-> "Only in DM", dm_and_guild_text |-> "In DM and guilds",
     available_text |-> "Available",
     command_not_found_text |-> "**Error**: Command {} not found.",
     individual_command_tip |-> "To get help with an individual command, pass its name as an argument to this command.",
     group_prefix |-> "Prefix",
     strikethrough_commands_tip_in_dm |-> tip,
     strikethrough_commands_tip_in_guild |-> tip,
     lacking_role |-> "Strike", lacking_permissions |-> "Strike",
     lacking_ownership |-> "Hide", wrong_channel |-> "Strike",
     embed_error_colour |-> "DARK_RED", embed_success_colour |-> "ROSEWATER",
     max_levenshtein_distance |-> 0]

\* a behaviour that is not recognised leaves the facet at Nothing
help_behaviour_lenient(opts, facet, behaviour) ==
    LET h == HelpBehaviour_from_str(behaviour)
    IN  IF h = None THEN Ok([opts EXCEPT ![facet] = "Nothing"])
        ELSE Ok([opts EXCEPT ![facet] = h[1]])

\* `options.<facet> = match HelpBehaviour::from_str(&behaviour)`: the facet is
\* assigned, or the macro returns "invalid help behaviour: {behaviour}".
help_behaviour(opts, facet, behaviour) ==
    LET h == HelpBehaviour_from_str(behaviour)
    IN  IF h = None THEN Fail(Err("InvalidHelpBehaviour", behaviour), opts)
        ELSE Ok([opts EXCEPT ![facet] = h[1]])

\* One iteration of `for attribute in &fun.attributes` of help.
help_attribute(opts, a) ==
    LET v == a.value
    IN  IF ~a.parses THEN Fail(Err("Parse", a.name), opts)
        ELSE IF a.name \in HelpSpecial
        THEN IF String_ok(v) THEN help_behaviour(opts, a.name, String_parse(v))
             ELSE ShapeMismatch(a.name, opts)
        ELSE match_options(HelpTable, a.name, v, opts)

\* the text strike_text starts from (its two backquotes left out)
StrikePrefix == "~~Strikethrough commands~~ are unavailable because they"

\* produce_strike_text never joining with a comma
produce_strike_text_no_comma(opts, dm_or_guild) ==
    LET perm == opts.lacking_permissions = "Strike"
        role == opts.lacking_role = "Strike"
        chan == opts.wrong_channel = "Strike"
        t1   == IF perm THEN StrikePrefix \o " require permissions" ELSE StrikePrefix
        t2   == IF role THEN t1 \o " require a specific role" ELSE t1
        t3   == IF chan THEN t2 \o " are limited to " \o dm_or_guild ELSE t2
    IN  IF perm \/ role \/ chan THEN Some(t3 \o ".") ELSE None

\* produce_strike_text(options, dm_or_guild) -> Option<String>
produce_strike_text(opts, dm_or_guild) ==
    LET t0    == StrikePrefix
        perm  == opts.lacking_permissions = "Strike"
        role  == opts.lacking_role = "Strike"
        chan  == opts.wrong_channel = "Strike"
        t1    == IF perm THEN t0 \o " require permissions" ELSE t0
        comma1 == perm
        t2    == IF role
                 THEN IF comma1 THEN t1 \o ", require a specific role"
                      ELSE t1 \o " require a specific role"
                 ELSE t1
        comma2 == comma1 \/ role
        t3    == IF chan
                 THEN IF comma2 THEN t2 \o ", or are limited to " \o dm_or_guild
                      ELSE t2 \o " are limited to " \o dm_or_guild
                 ELSE t2
        is_any_option_strike == perm \/ role \/ chan
    IN  IF is_any_option_strike THEN Some(t3 \o ".") ELSE None

\* lib.rs:561-568: a tip equal to Some("") is replaced by the generated text
strike_tips(opts) ==
    LET dm == IF opts.strikethrough_commands_tip_in_dm = Some("")
              THEN [opts EXCEPT !.strikethrough_commands_tip_in_dm =
                                    produce_strike_text(opts, "direct messages")]
              ELSE opts
    IN  IF dm.strikethrough_commands_tip_in_guild = Some("")
        THEN [dm EXCEPT !.strikethrough_commands_tip_in_guild =
                            produce_strike_text(dm, "guild messages")]
        ELSE dm

(***************************************************************************)
(* Declaration validator, name sanitizer and emission.                     *)
(***************************************************************************)
\* validate_declaration(&mut fun, is_help)
validate_declaration(f, is_help) ==
    IF f.args_ok THEN NoError
    ELSE Err("SignatureMismatch", IF is_help THEN "help" ELSE "command")

\* validate_return_type(&mut fun)
validate_return_type(f) ==
    IF f.ret_ok THEN NoError ELSE Err("ReturnTypeMismatch", "")

\* Characters by Unicode general category.
Nd == {"0", "1", "2", "3", "4", "5", "6", "7", "8", "9", "<U+0663>"}
Nl == {"<U+2167>"}
No == {"<U+00B2>"}
Letters == {"w", "i", "n", "s", "x"}

\* char::is_numeric: general categories Nd, Nl and No
is_numeric(c) == c \in Nd \cup Nl \cup No

\* Ident::new accepts n: XID_Start (or '_') followed by XID_Continue
is_ident(n) ==
    /\ n # <<>>
    /\ n[1] \in Letters \cup Nl \cup {"_"}
    /\ \A i \in 2..Len(n) : n[i] \in Letters \cup Nl \cup Nd \cup {"_"}

\* the underscore only before an ASCII digit
sanitize_ascii_digit(n) ==
    IF n # <<>> /\ n[1] \in {"0", "1", "2", "3", "4", "5", "6", "7", "8", "9"}
    THEN <<"_">> \o n ELSE n

\* lib.rs:254-259: the name, with an underscore before a leading number
sanitize(n) ==
    IF n # <<>> /\ is_numeric(n[1]) THEN <<"_">> \o n ELSE n

COMMAND         == "COMMAND"
COMMAND_OPTIONS == "COMMAND_OPTIONS"
HELP            == "HELP"
HELP_OPTIONS    == "HELP_OPTIONS"

\* IdentExt::with_suffix: the uppercased identifier, '_' and the suffix
with_suffix(i, suffix) == [upper_of |-> i, suffix |-> suffix]

RECURSIVE subs_with_suffix(_, _)
\* `sub.into_iter().map(|i| i.with_suffix(COMMAND))`
subs_with_suffix(sub, i) ==
    IF i > Len(sub) THEN <<>>
    ELSE <<with_suffix(sub[i], COMMAND)>> \o subs_with_suffix(sub, i + 1)

Error(e)    == [error |-> e, items |-> <<>>]
Emit(items) == [error |-> NoError, items |-> items]
Nothing     == [error |-> NoError, items |-> <<>>]

\* the wrapper record left without markers
cfgs2_none(f) == <<>>

\* the markers put before the options record and before the wrapper record
\* (`cfgs` and `cfgs2`)
cfgs_of(f)  == f.cfgs
cfgs2_of(f) == cfgs_of(f)

\* `#fun`: the function itself
fun_item(f) ==
    [kind |-> "fun", cfgs |-> f.cfgs, symbol |-> f.name, value |-> [name |-> f.name]]

\* the `names` field: the name, then the aliases
names_of(n, aliases) == <<n>> \o aliases

\* lib.rs:281-308: the three items of command
command_quote(f, n, ident, opts) ==
    <<[kind   |-> "options",
       cfgs   |-> cfgs_of(f),
       symbol |-> with_suffix(ident, COMMAND_OPTIONS),
       value  |-> [checks |-> opts.checks, bucket |-> opts.bucket,
                   names |-> names_of(n, opts.aliases),
                   desc |-> opts.description, usage |-> opts.usage,
                   example |-> opts.example, min_args |-> opts.min_args,
                   max_args |-> opts.max_args,
                   allowed_roles |-> opts.allowed_roles,
                   required_permissions |-> opts.required_permissions,
                   help_available |-> opts.help_available,
                   only_in |-> opts.only_in, owners_only |-> opts.owners_only,
                   owner_privilege |-> opts.owner_privilege,
                   sub |-> subs_with_suffix(opts.sub, 1)]],
      [kind   |-> "wrapper",
       cfgs   |-> cfgs2_of(f),
       symbol |-> with_suffix(ident, COMMAND),
       value  |-> [fun |-> f.name, options |-> with_suffix(ident, COMMAND_OPTIONS)]],
      fun_item(f)>>

\* the tail of command returning the options record beside the error of
\* the return-type check
command_finish_partial(f, n, opts) ==
    IF validate_declaration(f, FALSE) # NoError
    THEN Error(validate_declaration(f, FALSE))
    ELSE IF ~is_ident(sanitize(n))
    THEN Error(IF validate_return_type(f) # NoError THEN validate_return_type(f)
               ELSE Err("InvalidIdent", ""))
    ELSE IF validate_return_type(f) # NoError
    THEN [error |-> validate_return_type(f),
          items |-> <<command_quote(f, n, sanitize(n), opts)[1]>>]
    ELSE Emit(command_quote(f, n, sanitize(n), opts))

\* lib.rs:219-309: the tail of command, after the loop
command_finish(f, n, opts) ==
    IF validate_declaration(f, FALSE) # NoError
    THEN Error(validate_declaration(f, FALSE))
    ELSE IF validate_return_type(f) # NoError
    THEN Error(validate_return_type(f))
    ELSE IF ~is_ident(sanitize(n))
    THEN Error(Err("InvalidIdent", ""))
    ELSE Emit(command_quote(f, n, sanitize(n), opts))

\* lib.rs:621-658: the three items of help
help_quote(f, opts) ==
    <<[kind   |-> "options",
       cfgs   |-> cfgs_of(f),
       symbol |-> with_suffix(f.name, HELP_OPTIONS),
       value  |-> opts],
      [kind   |-> "wrapper",
       cfgs   |-> cfgs2_of(f),
       symbol |-> with_suffix(f.name, HELP),
       value  |-> [fun |-> f.name, options |-> with_suffix(f.name, HELP_OPTIONS)]],
      fun_item(f)>>

\* the tail of help without the return-type check
help_finish_no_return_check(f, opts) ==
    IF validate_declaration(f, TRUE) # NoError
    THEN Error(validate_declaration(f, TRUE))
    ELSE Emit(help_quote(f, strike_tips(opts)))

\* lib.rs:561-659: the tail of help, after the loop
help_finish(f, opts) ==
    IF validate_declaration(f, TRUE) # NoError
    THEN Error(validate_declaration(f, TRUE))
    ELSE IF validate_return_type(f) # NoError
    THEN Error(validate_return_type(f))
    ELSE Emit(help_quote(f, strike_tips(opts)))

(***************************************************************************)
(* The macros as functions of their input (the loop and the tail composed).*)
(***************************************************************************)
attribute_step(m, opts, a) ==
    IF m = "command" THEN command_attribute(opts, a) ELSE help_attribute(opts, a)

RECURSIVE run_attributes(_, _, _, _)
\* `for attribute in &fun.attributes`, from annotation i on
run_attributes(m, opts, attrs, i) ==
    IF i > Len(attrs) THEN Ok(opts)
    ELSE LET r == attribute_step(m, opts, attrs[i])
         IN  IF r.err # NoError THEN r
             ELSE run_attributes(m, r.options, attrs, i + 1)

\* pub fn command(attr, input) -> TokenStream
command_macro(at, f) ==
    IF ~f.parses THEN Error(Err("Parse", "input"))
    ELSE IF at.kind = "bad" THEN Error(Err("Parse", "attr"))
    ELSE LET n == IF at.kind = "lit" THEN at.s ELSE f.name
             r == run_attributes("command", Options_default, f.attributes, 1)
         IN  IF r.err # NoError THEN Error(r.err)
             ELSE command_finish(f, n, r.options)

\* pub fn help(_attr, input) -> TokenStream
help_macro(f, dflt) ==
    IF ~f.parses THEN Error(Err("Parse", "input"))
    ELSE LET r == run_attributes("help", dflt, f.attributes, 1)
         IN  IF r.err # NoError THEN Error(r.err)
             ELSE help_finish(f, r.options)

(***************************************************************************)
(* Inputs: the declarations the macros are run on.                         *)
(***************************************************************************)
SeqsUpTo(S, n) == UNION {[1..k -> S] : k \in 0..n}

Fun(attrs, cfgs, parses, args_ok, ret_ok) ==
    [name |-> <<"w", "i", "n", "s">>, attributes |-> attrs, cfgs |-> cfgs,
     parses |-> parses, args_ok |-> args_ok, ret_ok |-> ret_ok]

NoAttr      == [kind |-> "empty", s |-> <<>>]
BadAttr     == [kind |-> "bad",   s |-> <<>>]
LitAttr(n)  == [kind |-> "lit",   s |-> n]

\* Names given as `#[command("...")]`
LitNames ==
    {<<"4", "2", "w", "i", "n", "s">>, <<"w", "i", "n">>, <<"7">>, <<>>,
     <<"<U+0663>", "x">>, <<"<U+2167>", "x">>, <<"<U+00B2>", "x">>,
     <<"w", "<U+00B2>">>}

Cfgs == {<<>>, <<"cfg(test)">>, <<"cfg(feature = a)", "cfg(not(test))">>}

RequiredPermissions(p) ==
    Attribute("required_permissions", List([i \in 1..Len(p) |-> Id(p[i])]))

\* Annotations a command is given
CommandAttrs ==
    {Attribute("num_args", Scalar(Int(2))),
     Attribute("num_args", Flag),
     Attribute("min_args", Scalar(Int(1))),
     Attribute("max_args", Scalar(Int(3))),
     Attribute("max_args", Scalar(Str("3"))),
     RequiredPermissions(<<"KICK_MEMBERS", "ADMINISTRATOR">>),
     RequiredPermissions(<<"BAN_MEMBERS", "ban_members">>),
     Attribute("checks", List(<<Id("owner_check")>>)),
     Attribute("aliases", List(<<Str("w"), Str("victory")>>)),
     Attribute("bucket", Scalar(Str("slow"))),
     Attribute("usage", Scalar(Str("<n>"))),
     Attribute("help_available", Scalar(Bool(FALSE))),
     Attribute("only_in", Scalar(Str("guilds"))),
     Attribute("owners_only", Flag),
     Attribute("sub", List(<<Id("wins_reset")>>)),
     Attribute("foo", Flag),
     Attribute("lacking_role", Scalar(Str("strike"))),
     Malformed("bar")}

\* Annotations a help command is given
HelpAttrs ==
    {Attribute("suggestion_text", Scalar(Str("Maybe {}?"))),
     Attribute("usage_label", Flag),
     Attribute("lacking_role", Scalar(Str("hide"))),
     Attribute("lacking_role", Scalar(Str("nothing"))),
     Attribute("lacking_role", Scalar(Str("Strike"))),
     Attribute("lacking_permissions", Scalar(Str("nothing"))),
     Attribute("lacking_permissions", Scalar(Str("strikethrough"))),
     Attribute("lacking_ownership", Scalar(Str("strike"))),
     Attribute("lacking_ownership", Scalar(Str(""))),
     Attribute("wrong_channel", Scalar(Str("hide"))),
     Attribute("wrong_channel", Scalar(Str("none"))),
     Attribute("strikethrough_commands_tip_in_dm", Flag),
     Attribute("strikethrough_commands_tip_in_guild", Scalar(Str("custom"))),
     Attribute("embed_error_colour", Scalar(Id("RED"))),
     Attribute("max_levenshtein_distance", Scalar(Int(3))),
     Attribute("foo", Flag),
     Attribute("aliases", List(<<Str("h")>>)),
     Malformed("bar")}

Decl(m, at, f) == [macro |-> m, attr |-> at, fun |-> f]

\* Commands over every annotation sequence up to MaxAttrs.
CommandAttrDecls ==
    {Decl("command", NoAttr, Fun(attrs, <<"cfg(test)">>, TRUE, TRUE, ret_ok)) :
        attrs \in SeqsUpTo(CommandAttrs, MaxAttrs), ret_ok \in BOOLEAN}

\* Identifiers written in the lists; BOGUS names no permission
PermIdents == {"KICK_MEMBERS", "BAN_MEMBERS", "BOGUS"}

\* Commands with a required_permissions list up to MaxPerms, alone or
\* among other annotations.
CommandPermDecls ==
    {Decl("command", NoAttr,
          Fun(pre \o <<RequiredPermissions(p)>> \o post, <<>>, TRUE, TRUE, TRUE)) :
        p \in SeqsUpTo(PermIdents, MaxPerms),
        pre \in {<<>>, <<RequiredPermissions(<<"ADMINISTRATOR">>)>>},
        post \in {<<>>, <<RequiredPermissions(<<"CREATE_INVITE">>)>>,
                  <<Attribute("min_args", Scalar(Int(1)))>>}}

\* Commands over the names, the markers and the function's validity.
CommandFunDecls ==
    {Decl("command", at, Fun(attrs, cfgs, v[1], v[2], v[3])) :
        at \in {NoAttr, BadAttr} \cup {LitAttr(n) : n \in LitNames},
        attrs \in {<<>>, <<Attribute("aliases", List(<<Str("w"), Str("victory")>>))>>,
                   <<Attribute("foo", Flag)>>},
        cfgs \in Cfgs,
        v \in {<<TRUE, TRUE, TRUE>>, <<FALSE, TRUE, TRUE>>, <<TRUE, FALSE, TRUE>>,
               <<TRUE, TRUE, FALSE>>, <<TRUE, FALSE, FALSE>>}}

\* Help commands over every annotation sequence up to MaxAttrs.
HelpAttrDecls ==
    {Decl("help", NoAttr, Fun(attrs, cfgs, TRUE, TRUE, ret_ok)) :
        attrs \in SeqsUpTo(HelpAttrs, MaxAttrs),
        cfgs \in {<<"cfg(test)">>}, ret_ok \in BOOLEAN}

FacetValues == {"absent", "strike", "nothing"}

Facet(n, x) == IF x = "absent" THEN <<>> ELSE <<Attribute(n, Scalar(Str(x)))>>

TipForms ==
    {<<Attribute("strikethrough_commands_tip_in_dm", Flag),
       Attribute("strikethrough_commands_tip_in_guild", Flag)>>,
     <<Attribute("strikethrough_commands_tip_in_guild", Scalar(Str(""))),
       Attribute("strikethrough_commands_tip_in_dm", Scalar(Str("")))>>,
     <<Attribute("strikethrough_commands_tip_in_dm", Scalar(Str("custom")))>>,
     <<>>}

\* Help commands over the behaviour facets and the strikethrough tips, the
\* tips before or after the facets.
HelpFacetDecls ==
    {Decl("help", NoAttr,
          Fun(IF first THEN tips \o facets ELSE facets \o tips,
              <<>>, v[1], v[2], v[3])) :
        facets \in {Facet("lacking_permissions", x[1]) \o Facet("lacking_role", x[2])
                    \o Facet("wrong_channel", x[3]) \o Facet("lacking_ownership", x[4]) :
                    x \in FacetValues \X FacetValues \X FacetValues \X {"absent", "strike"}},
        tips \in TipForms, first \in BOOLEAN,
        v \in {<<TRUE, TRUE, TRUE>>}}

\* Help commands over the markers and the function's validity.
HelpFunDecls ==
    {Decl("help", at, Fun(attrs, cfgs, v[1], v[2], v[3])) :
        at \in {NoAttr, BadAttr},
        attrs \in {<<>>, <<Attribute("lacking_role", Scalar(Str("hide")))>>,
                   <<Attribute("foo", Flag)>>},
        cfgs \in Cfgs,
        v \in {<<TRUE, TRUE, TRUE>>, <<FALSE, TRUE, TRUE>>, <<TRUE, FALSE, TRUE>>,
               <<TRUE, TRUE, FALSE>>, <<TRUE, FALSE, FALSE>>}}

Declarations ==
    CommandAttrDecls \cup CommandPermDecls \cup CommandFunDecls
    \cup HelpAttrDecls \cup HelpFacetDecls \cup HelpFunDecls

\* The default of the two strikethrough tips of HelpOptions
TipDefaults == {None, Some("")}

(***************************************************************************)
(* The state machine.                                                      *)
(***************************************************************************)
Init ==
    \E d \in Declarations :
        /\ macro = d.macro
        /\ attr = d.attr
        /\ fun = d.fun
        /\ pc = "parse"
        /\ idx = 1
        /\ name = <<>>
        /\ defaults \in IF d.macro = "command" THEN {Options_default}
                        ELSE {HelpOptions_default(t) : t \in TipDefaults}
        /\ options = defaults
        /\ out = Nothing

\* lib.rs:123-131: the function and the name are parsed, the options start
\* from their default
CommandParse ==
    /\ macro = "command" /\ pc = "parse"
    /\ IF ~fun.parses
       THEN /\ out' = Error(Err("Parse", "input"))
            /\ pc' = "done"
            /\ UNCHANGED <<name, options>>
       ELSE IF attr.kind = "bad"
       THEN /\ out' = Error(Err("Parse", "attr"))
            /\ pc' = "done"
            /\ UNCHANGED <<name, options>>
       ELSE /\ name' = IF attr.kind = "lit" THEN attr.s ELSE fun.name
            /\ options' = defaults
            /\ pc' = "attributes"
            /\ UNCHANGED out
    /\ UNCHANGED <<macro, attr, fun, idx, defaults>>

\* the loop of command calling the signature check when an annotation fails,
\* and returning the check's error in the annotation's place
CommandLoop_validating ==
    /\ macro = "command" /\ pc = "attributes" /\ idx <= Len(fun.attributes)
    /\ LET r == command_attribute(options, fun.attributes[idx])
       IN  IF r.err # NoError
           THEN /\ out' = IF validate_declaration(fun, FALSE) # NoError
                          THEN Error(validate_declaration(fun, FALSE))
                          ELSE Error(r.err)
                /\ pc' = "done"
                /\ UNCHANGED <<options, idx>>
           ELSE /\ options' = r.options
                /\ idx' = idx + 1
                /\ UNCHANGED <<out, pc>>
    /\ UNCHANGED <<macro, attr, fun, name, defaults>>

\* lib.rs:133-217: one annotation is processed
CommandLoop ==
    /\ macro = "command" /\ pc = "attributes" /\ idx <= Len(fun.attributes)
    /\ LET r == command_attribute(options, fun.attributes[idx])
       IN  IF r.err # NoError
           THEN /\ out' = Error(r.err)
                /\ pc' = "done"
                /\ UNCHANGED <<options, idx>>
           ELSE /\ options' = r.options
                /\ idx' = idx + 1
                /\ UNCHANGED <<out, pc>>
    /\ UNCHANGED <<macro, attr, fun, name, defaults>>

\* lib.rs:219-309: validation and emission
CommandFinish ==
    /\ macro = "command" /\ pc = "attributes" /\ idx > Len(fun.attributes)
    /\ out' = command_finish(fun, name, options)
    /\ pc' = "done"
    /\ UNCHANGED <<macro, attr, fun, idx, name, options, defaults>>

\* lib.rs:408-410
HelpParse ==
    /\ macro = "help" /\ pc = "parse"
    /\ IF ~fun.parses
       THEN /\ out' = Error(Err("Parse", "input"))
            /\ pc' = "done"
            /\ UNCHANGED options
       ELSE /\ options' = defaults
            /\ pc' = "attributes"
            /\ UNCHANGED out
    /\ UNCHANGED <<macro, attr, fun, idx, name, defaults>>

\* the loop of help taking the annotations from the last to the first
HelpLoop_last_to_first ==
    /\ macro = "help" /\ pc = "attributes" /\ idx <= Len(fun.attributes)
    /\ LET r == help_attribute(options,
                               fun.attributes[Len(fun.attributes) - idx + 1])
       IN  IF r.err # NoError
           THEN /\ out' = Error(r.err)
                /\ pc' = "done"
                /\ UNCHANGED <<options, idx>>
           ELSE /\ options' = r.options
                /\ idx' = idx + 1
                /\ UNCHANGED <<out, pc>>
    /\ UNCHANGED <<macro, attr, fun, name, defaults>>

\* the loop of help replacing an empty strikethrough tip by the generated
\* text as soon as its annotation is processed, from the facets as they are
\* at that point
HelpLoop_tip_at_once ==
    /\ macro = "help" /\ pc = "attributes" /\ idx <= Len(fun.attributes)
    /\ LET r == help_attribute(options, fun.attributes[idx])
       IN  IF r.err # NoError
           THEN /\ out' = Error(r.err)
                /\ pc' = "done"
                /\ UNCHANGED <<options, idx>>
           ELSE /\ options' = strike_tips(r.options)
                /\ idx' = idx + 1
                /\ UNCHANGED <<out, pc>>
    /\ UNCHANGED <<macro, attr, fun, name, defaults>>

\* lib.rs:412-513: one annotation is processed
HelpLoop ==
    /\ macro = "help" /\ pc = "attributes" /\ idx <= Len(fun.attributes)
    /\ LET r == help_attribute(options, fun.attributes[idx])
       IN  IF r.err # NoError
           THEN /\ out' = Error(r.err)
                /\ pc' = "done"
                /\ UNCHANGED <<options, idx>>
           ELSE /\ options' = r.options
                /\ idx' = idx + 1
                /\ UNCHANGED <<out, pc>>
    /\ UNCHANGED <<macro, attr, fun, name, defaults>>

\* lib.rs:561-659: the generated tips, validation and emission
HelpFinish ==
    /\ macro = "help" /\ pc = "attributes" /\ idx > Len(fun.attributes)
    /\ out' = help_finish(fun, options)
    /\ pc' = "done"
    /\ UNCHANGED <<macro, attr, fun, idx, name, options, defaults>>

Next ==
    \/ CommandParse
    \/ CommandLoop
    \/ CommandFinish
    \/ HelpParse
    \/ HelpLoop
    \/ HelpFinish

Spec == Init /\ [][Next]_vars

\* The state machine returns what the macro, as a function, returns.
MacroResult ==
    pc = "done" =>
        out = IF macro = "command" THEN command_macro(attr, fun)
              ELSE help_macro(fun, defaults)

(***************************************************************************)
(* Properties.                                                             *)
(***************************************************************************)
Done    == pc = "done"
Emitted == out.items # <<>>
Attrs   == fun.attributes

\* The names a macro accepts: the special-cased ones and its dispatch table
KnownNames(m) ==
    IF m = "command" THEN CommandSpecial \cup CommandTable
    ELSE HelpSpecial \cup HelpTable

\* The macro gets as far as annotation i: the declaration parses and no
\* annotation before i fails.
Reached(i) ==
    /\ fun.parses
    /\ macro = "command" => attr.kind # "bad"
    /\ run_attributes(macro, defaults, SubSeq(Attrs, 1, i - 1), 1).err = NoError

\* the declaration with annotation i replaced by the annotations `as`
ReplaceAttr(f, i, as) ==
    [f EXCEPT !.attributes =
        SubSeq(f.attributes, 1, i - 1) \o as
        \o SubSeq(f.attributes, i + 1, Len(f.attributes))]

\* C1: in command and in help, a declaration holding an annotation whose
\* name is neither special-cased nor in the macro's dispatch table emits
\* nothing and fails; when the macro gets as far as that annotation (the
\* annotation parses, nothing before it failed), the error is "invalid
\* attribute" carrying exactly that name.
C1_UnknownOption ==
    Done =>
        \A i \in 1..Len(Attrs) :
            Attrs[i].name \notin KnownNames(macro) =>
                /\ out.items = <<>>
                /\ out.error # NoError
                /\ (Reached(i) /\ Attrs[i].parses) =>
                        out.error = Err("InvalidAttribute", Attrs[i].name)

\* An unknown name after an accepted annotation is rejected by name.
C1_Witness ==
    /\ Done /\ idx = 2 /\ Len(Attrs) = 2
    /\ Attrs[2].name \notin KnownNames(macro)
    /\ out = Error(Err("InvalidAttribute", Attrs[2].name))

\* the sequences that list exactly the names of p, in any order, with a
\* name possibly repeated
Rearrangements(p) ==
    {q \in SeqsUpTo({p[i] : i \in 1..Len(p)}, Len(p) + 1) :
        {q[i] : i \in 1..Len(q)} = {p[i] : i \in 1..Len(p)}}

IsPermList(a) == a.parses /\ a.name = "required_permissions" /\ VecIdent_ok(a.value)

AllKnown(p) == \A i \in 1..Len(p) : p[i] \in PermissionNames

\* C2: for a required_permissions list of known names, every rearrangement
\* of the list (any order, names repeated) gives the same result, bitfield
\* included; a list holding an unknown name fails with "invalid permission"
\* wherever the name stands in the list, once the macro gets as far as the
\* annotation, and never emits.
C2_PermissionOrder ==
    (Done /\ macro = "command") =>
        \A i \in 1..Len(Attrs) :
            IsPermList(Attrs[i]) =>
                LET p == VecIdent_parse(Attrs[i].value)
                IN  \A q \in Rearrangements(p) :
                        LET o == command_macro(attr,
                                    ReplaceAttr(fun, i, <<RequiredPermissions(q)>>))
                        IN  IF AllKnown(p) THEN o = out
                            ELSE /\ out.items = <<>> /\ o.items = <<>>
                                 /\ Reached(i) =>
                                        /\ out.error.kind = "InvalidPermission"
                                        /\ o.error.kind = "InvalidPermission"

\* Two different known names in a list, emitted.
C2_Witness ==
    /\ Done /\ Emitted /\ macro = "command"
    /\ \E i \in 1..Len(Attrs) :
          /\ IsPermList(Attrs[i])
          /\ VecIdent_parse(Attrs[i].value) = <<"BAN_MEMBERS", "KICK_MEMBERS">>
    /\ out.items[1].value.required_permissions = 6

\* the bits set in x
BitSet(x) == {k \in 0..(PermBits - 1) : (x \div (2 ^ k)) % 2 = 1}

\* the bits of the constants of a set of permission names
BitsOfNames(S) == UNION {BitSet(Permissions_from_str(n)[1]) : n \in S}

PermPositions == {i \in 1..Len(Attrs) : IsPermList(Attrs[i])}

NamesAt(i) == LET p == VecIdent_parse(Attrs[i].value) IN {p[k] : k \in 1..Len(p)}

\* C3 as stated: the emitted bitfield is the OR of the constants of every
\* permission name the declaration references.
C3_AllReferencedNames ==
    (Done /\ Emitted /\ macro = "command") =>
        BitSet(out.items[1].value.required_permissions)
            = BitsOfNames(UNION {NamesAt(i) : i \in PermPositions})

\* C3, amended: the emitted bitfield is the OR of the constants of the names
\* listed by the last required_permissions annotation of the declaration,
\* and zero when there is no such annotation or its list is empty.
C3_LastAnnotationNames ==
    (Done /\ Emitted /\ macro = "command") =>
        LET bits == out.items[1].value.required_permissions
        IN  IF PermPositions = {} THEN bits = 0
            ELSE LET last == CHOOSE i \in PermPositions :
                                \A j \in PermPositions : j <= i
                 IN  /\ BitSet(bits) = BitsOfNames(NamesAt(last))
                     /\ bits < 2 ^ PermBits
                     /\ NamesAt(last) = {} => bits = 0

\* Two required_permissions annotations, the last with two names.
C3_Witness ==
    /\ Done /\ Emitted /\ macro = "command"
    /\ Cardinality(PermPositions) = 2
    /\ \E i \in PermPositions :
          /\ \A j \in PermPositions : j <= i
          /\ Cardinality(NamesAt(i)) = 2
    /\ out.items[1].value.required_permissions = 6

NumArgsPositions == {i \in 1..Len(Attrs) : Attrs[i].parses /\ Attrs[i].name = "num_args"}

\* min_args(v), max_args(v) for the value v given to num_args
MinMax(v) == <<Attribute("min_args", v), Attribute("max_args", v)>>

\* C4: replacing a num_args(n) annotation by min_args(n), max_args(n) at
\* the same position changes nothing of what the command emits (min_args,
\* max_args and every other field) nor whether it emits; and when no later
\* annotation assigns them, the emitted min_args and max_args are Some(n).
C4_NumArgsSugar ==
    (Done /\ macro = "command") =>
        \A i \in NumArgsPositions :
            LET o == command_macro(attr, ReplaceAttr(fun, i, MinMax(Attrs[i].value)))
            IN  /\ o.items = out.items
                /\ (o.error = NoError) <=> (out.error = NoError)
                /\ ( /\ Emitted
                     /\ \A j \in (i + 1)..Len(Attrs) :
                            Attrs[j].name \notin {"num_args", "min_args", "max_args"} )
                   => /\ out.items[1].value.min_args = Some(num_parse(Attrs[i].value))
                      /\ out.items[1].value.max_args = Some(num_parse(Attrs[i].value))

\* num_args(2) before another annotation, emitted with both counts Some(2).
C4_Witness ==
    /\ Done /\ Emitted /\ macro = "command"
    /\ 1 \in NumArgsPositions /\ Len(Attrs) = 2
    /\ out.items[1].value.min_args = Some(2)
    /\ out.items[1].value.max_args = Some(2)

\* the identifier the symbols of the emitted records are derived from
SymbolIdent == out.items[1].symbol.upper_of

\* C5 as stated: the underscore is prepended exactly when the first
\* character is a decimal digit.
C5_DecimalDigit ==
    (Done /\ Emitted /\ macro = "command") =>
        /\ SymbolIdent = IF name # <<>> /\ name[1] \in Nd THEN <<"_">> \o name ELSE name
        /\ out.items[1].value.names = <<name>> \o options.aliases

\* C5, amended: the underscore is prepended exactly when the first
\* character is numeric (general category Nd, Nl or No: a decimal digit, a
\* letter-like number or another numeric character); the first element of
\* the emitted names is the name as given, followed by the aliases in order.
C5_NumericChar ==
    (Done /\ Emitted /\ macro = "command") =>
        /\ SymbolIdent = IF name # <<>> /\ name[1] \in Nd \cup Nl \cup No
                         THEN <<"_">> \o name ELSE name
        /\ out.items[2].symbol.upper_of = SymbolIdent
        /\ Head(out.items[1].value.names) = name
        /\ Tail(out.items[1].value.names) = options.aliases

\* "42wins" with two aliases: the symbols come from "_42wins", the names
\* start with "42wins".
C5_Witness ==
    /\ Done /\ Emitted /\ macro = "command"
    /\ name = <<"4", "2", "w", "i", "n", "s">>
    /\ SymbolIdent = <<"_", "4", "2", "w", "i", "n", "s">>
    /\ out.items[1].value.names = <<name, "w", "victory">>

\* the text the claim gives for a context label, by the facets at Strike
ExpectedTip(perm, role, chan, label) ==
    CASE  perm /\  role /\  chan ->
            Some(StrikePrefix \o " require permissions, require a specific role, or are limited to " \o label \o ".")
      []  perm /\  role /\ ~chan ->
            Some(StrikePrefix \o " require permissions, require a specific role.")
      []  perm /\ ~role /\  chan ->
            Some(StrikePrefix \o " require permissions, or are limited to " \o label \o ".")
      []  perm /\ ~role /\ ~chan ->
            Some(StrikePrefix \o " require permissions.")
      [] ~perm /\  role /\  chan ->
            Some(StrikePrefix \o " require a specific role, or are limited to " \o label \o ".")
      [] ~perm /\  role /\ ~chan ->
            Some(StrikePrefix \o " require a specific role.")
      [] ~perm /\ ~role /\  chan ->
            Some(StrikePrefix \o " are limited to " \o label \o ".")
      [] OTHER -> None

ExpectedTipOf(opts, label) ==
    ExpectedTip(opts.lacking_permissions = "Strike", opts.lacking_role = "Strike",
                opts.wrong_channel = "Strike", label)

\* C6: a strikethrough tip left at the empty string is emitted as None when
\* none of lacking_permissions, lacking_role, wrong_channel is Strike, and
\* otherwise as the prefix, the clauses of the facets at Strike in the order
\* permissions, role, channel, comma-joined after the first, the channel
\* clause naming "direct messages" (dm tip) or "guild messages" (guild tip),
\* and a period.
C6_StrikeText ==
    (Done /\ Emitted /\ macro = "help") =>
        /\ options.strikethrough_commands_tip_in_dm = Some("") =>
              out.items[1].value.strikethrough_commands_tip_in_dm
                  = ExpectedTipOf(options, "direct messages")
        /\ options.strikethrough_commands_tip_in_guild = Some("") =>
              out.items[1].value.strikethrough_commands_tip_in_guild
                  = ExpectedTipOf(options, "guild messages")

\* All three facets set to strike by annotations and the guild tip asked for.
C6_Witness ==
    /\ Done /\ Emitted /\ macro = "help"
    /\ Len(Attrs) >= 5
    /\ options.lacking_permissions = "Strike" /\ options.lacking_role = "Strike"
    /\ options.wrong_channel = "Strike"
    /\ options.strikethrough_commands_tip_in_guild = Some("")
    /\ out.items[1].value.strikethrough_commands_tip_in_guild
          = Some(StrikePrefix \o " require permissions, require a specific role, or are limited to guild messages.")

\* Every annotation of the declaration is accepted.
LoopCompletes ==
    run_attributes(macro, defaults, Attrs, 1).err = NoError

\* C7: a help function whose return type does not match emits nothing and
\* fails; the error is the return-type mismatch whenever validation gets as
\* far as the return type (the declaration parses, every annotation is
\* accepted, the signature matches).
C7_HelpReturnType ==
    (Done /\ macro = "help" /\ ~fun.ret_ok) =>
        /\ out.items = <<>>
        /\ out.error # NoError
        /\ (fun.parses /\ LoopCompletes /\ fun.args_ok) =>
                out.error = Err("ReturnTypeMismatch", "")

\* A help function with an accepted annotation and the wrong return type.
C7_Witness ==
    /\ Done /\ macro = "help" /\ ~fun.ret_ok
    /\ Len(Attrs) >= 1 /\ idx > Len(Attrs)
    /\ out = Error(Err("ReturnTypeMismatch", ""))

\* the command's name as the macro determines it
DeclaredName == IF attr.kind = "lit" THEN attr.s ELSE fun.name

\* Every check of the declaration, in processing order, with its error
ChecksInOrder ==
    <<IF fun.parses THEN NoError ELSE Err("Parse", "input")>>
    \o (IF macro = "command"
        THEN <<IF attr.kind = "bad" THEN Err("Parse", "attr") ELSE NoError>>
        ELSE <<>>)
    \o [i \in 1..Len(Attrs) |-> attribute_step(macro, defaults, Attrs[i]).err]
    \o <<validate_declaration(fun, macro = "help"), validate_return_type(fun)>>
    \o (IF macro = "command"
        THEN <<IF is_ident(sanitize(DeclaredName)) THEN NoError
               ELSE Err("InvalidIdent", "")>>
        ELSE <<>>)

FirstError(es) ==
    IF \A i \in 1..Len(es) : es[i] = NoError THEN NoError
    ELSE es[CHOOSE i \in 1..Len(es) :
                /\ es[i] # NoError
                /\ \A j \in 1..(i - 1) : es[j] = NoError]

\* the options record, the wrapper naming that record and the function
Complete(items) ==
    /\ Len(items) = 3
    /\ items[1].kind = "options"
    /\ items[2].kind = "wrapper"
    /\ items[2].value.options = items[1].symbol
    /\ items[2].value.fun = fun.name
    /\ items[3].kind = "fun"
    /\ items[3].symbol = fun.name

\* C8: a macro returns either one error, the first one in processing
\* order, and no item, or the complete set of items (options record, wrapper
\* referencing it, the function) and no error; never an error beside an
\* item, never a part of the set.
C8_ErrorOrArtifacts ==
    /\ ~Done => out = Nothing
    /\ Done =>
          /\ out.error = FirstError(ChecksInOrder)
          /\ out.error # NoError => out.items = <<>>
          /\ out.error = NoError => Complete(out.items)

\* A declaration with two failing checks returns the first.
C8_Witness ==
    /\ Done /\ out.items = <<>>
    /\ Cardinality({i \in 1..Len(ChecksInOrder) : ChecksInOrder[i] # NoError}) >= 2
    /\ out.error.kind = "InvalidAttribute"
    /\ ~fun.ret_ok

\* the item is compiled under the configuration c (the markers that hold)
EnabledUnder(cfgs, c) == \A k \in 1..Len(cfgs) : cfgs[k] \in c

Markers == UNION {{m[k] : k \in 1..Len(m)} : m \in Cfgs}

\* C9: the options record and the wrapper record of an emitted declaration
\* carry the function's conditional-compilation markers, in order; under no
\* configuration is one of them compiled and the function not.
C9_CfgsReplicated ==
    (Done /\ Emitted) =>
        /\ out.items[1].cfgs = fun.cfgs
        /\ out.items[2].cfgs = fun.cfgs
        /\ \A c \in SUBSET Markers :
              \A k \in 1..2 :
                  EnabledUnder(out.items[k].cfgs, c) => EnabledUnder(fun.cfgs, c)

\* A function with two markers, emitted.
C9_Witness ==
    /\ Done /\ Emitted /\ Len(fun.cfgs) = 2
    /\ out.items[2].cfgs = fun.cfgs

\* the behaviour a value names
BehaviourNamed(s) ==
    CASE s = "strike" -> "Strike" [] s = "hide" -> "Hide" [] s = "nothing" -> "Nothing"

\* C10: in help, when the loop processes lacking_role, lacking_permissions,
\* lacking_ownership or wrong_channel with a string value: a value other
\* than strike, hide, nothing ends the macro with "invalid help behaviour"
\* carrying the value and no item; one of the three sets that facet to it
\* and leaves the other three facets as they were.
C10_HelpBehaviour ==
    [][ ( /\ macro = "help" /\ pc = "attributes" /\ idx <= Len(Attrs)
          /\ Attrs[idx].parses
          /\ Attrs[idx].name \in HelpSpecial
          /\ String_ok(Attrs[idx].value) )
        => LET facet == Attrs[idx].name
               s     == String_parse(Attrs[idx].value)
           IN  IF s \in {"strike", "hide", "nothing"}
               THEN /\ options'[facet] = BehaviourNamed(s)
                    /\ \A f \in HelpSpecial \ {facet} : options'[f] = options[f]
                    /\ pc' = "attributes" /\ out' = Nothing
               ELSE /\ pc' = "done"
                    /\ out' = [error |-> Err("InvalidHelpBehaviour", s), items |-> <<>>]
      ]_vars

\* lacking_role set to hide, then a value that names no behaviour.
C10_Witness ==
    /\ Done /\ macro = "help" /\ idx = 2
    /\ options.lacking_role = "Hide" /\ defaults.lacking_role = "Strike"
    /\ options.lacking_permissions = defaults.lacking_permissions
    /\ out = Error(Err("InvalidHelpBehaviour", "Strike"))

\* The macro gets past parsing its input.
Parsed ==
    /\ fun.parses
    /\ macro = "command" => attr.kind # "bad"

\* C12 as stated: the signature check and the return-type check run for
\* every declaration, whatever happened to its annotations: the step that
\* ends the processing of a parsed declaration is always the tail of the
\* macro, where the two checks are called.
C12_ChecksUnconditional ==
    [][(pc = "attributes" /\ pc' = "done") => (CommandFinish \/ HelpFinish)]_vars

\* C12: the two checks run only once every annotation has been accepted.  A
\* parsed declaration with a failing annotation leaves the loop at that
\* annotation and returns the annotation's error, also when its signature
\* or its return type would not pass; a parsed declaration whose annotations
\* are all accepted reaches the tail, and a failing signature check is
\* returned before a failing return-type check.
C12_ChecksAfterAnnotations ==
    (Done /\ Parsed) =>
        IF ~LoopCompletes
        THEN /\ idx <= Len(Attrs)
             /\ out = Error(run_attributes(macro, defaults, Attrs, 1).err)
        ELSE /\ idx = Len(Attrs) + 1
             /\ ~fun.args_ok =>
                    out = Error(validate_declaration(fun, macro = "help"))
             /\ (fun.args_ok /\ ~fun.ret_ok) =>
                    out = Error(validate_return_type(fun))

\* A command with an unknown option and a signature that does not match has
\* returned "invalid attribute", not the signature mismatch.
C12_Witness ==
    /\ Done /\ Parsed /\ macro = "command"
    /\ ~LoopCompletes /\ ~fun.args_ok /\ ~fun.ret_ok
    /\ out.error = Err("InvalidAttribute", "foo")

\* The options of a macro that hold one value or one flag
SingleValued(m) ==
    IF m = "command"
    THEN {"min_args", "max_args", "bucket", "description", "usage", "example",
          "help_available", "only_in", "owners_only", "owner_privilege"}
    ELSE HelpTable \cup HelpSpecial

\* The fields an annotation assigns
AssignedFields(a) ==
    IF a.name = "num_args" THEN {"min_args", "max_args"} ELSE {a.name}

\* the annotations of the declaration that assign field fd
Assigning(fd) == {i \in 1..Len(Attrs) : fd \in AssignedFields(Attrs[i])}

\* The value of field fd as the declaration gives it: the value the last
\* annotation assigning fd gives on its own, or the schema default.
Given(fd) ==
    IF Assigning(fd) = {} THEN defaults[fd]
    ELSE LET last == CHOOSE i \in Assigning(fd) : \A j \in Assigning(fd) : j <= i
         IN  attribute_step(macro, defaults, Attrs[last]).options[fd]

\* the value of field fd in the emitted options record
EmittedValue(fd) ==
    IF macro = "command" /\ fd = "description" THEN out.items[1].value.desc
    ELSE out.items[1].value[fd]

\* The two strikethrough tips, with the label each is generated for
TipFields ==
    {"strikethrough_commands_tip_in_dm", "strikethrough_commands_tip_in_guild"}

TipLabel(fd) ==
    IF fd = "strikethrough_commands_tip_in_dm" THEN "direct messages"
    ELSE "guild messages"

\* C13 as stated, for the fields some annotation assigns: the emitted value
\* of every single-valued option is the value given by the last annotation
\* that assigns it.
C13_LastAnnotationValue ==
    (Done /\ Emitted) =>
        \A fd \in SingleValued(macro) :
            Assigning(fd) # {} => EmittedValue(fd) = Given(fd)

\* C13: annotations are processed in source order; every single-valued
\* option other than the two strikethrough tips is emitted with the value of
\* the last annotation that assigns it (num_args assigning min_args and
\* max_args), or with its schema default when none does.  A strikethrough
\* tip is emitted likewise unless the value so given is the empty text: then
\* the text generated from the facets, or no text, is emitted in its place.
C13_LastAssignmentWins ==
    (Done /\ Emitted) =>
        \A fd \in SingleValued(macro) :
            IF macro = "help" /\ fd \in TipFields /\ Given(fd) = Some("")
            THEN EmittedValue(fd) = produce_strike_text(options, TipLabel(fd))
            ELSE EmittedValue(fd) = Given(fd)

\* A command with num_args(2) and then min_args(1) is emitted with the
\* minimum of the later annotation, the maximum of the earlier one and the
\* default of the bucket.
C13_Witness ==
    /\ Done /\ Emitted /\ macro = "command"
    /\ Attrs = <<Attribute("num_args", Scalar(Int(2))),
                 Attribute("min_args", Scalar(Int(1)))>>
    /\ EmittedValue("min_args") = Some(1)
    /\ EmittedValue("max_args") = Some(2)
    /\ EmittedValue("bucket") = None

\* What a help declaration comes to: its three facets after the last
\* annotation, the tips left to be generated, and the tips emitted.
TipOutcome(f, dflt) ==
    LET final == run_attributes("help", dflt, f.attributes, 1).options
        value == help_macro(f, dflt).items[1].value
    IN  [lacking_permissions |-> final.lacking_permissions,
         lacking_role        |-> final.lacking_role,
         wrong_channel       |-> final.wrong_channel,
         generated           |-> {fd \in TipFields : final[fd] = Some("")},
         tips                |-> [fd \in TipFields |-> value[fd]]]

\* The outcomes of the help declarations over the facets and the tips
FacetOutcomes ==
    {TipOutcome(d.fun, HelpOptions_default(t)) :
        d \in HelpFacetDecls, t \in TipDefaults}

\* C14: an emitted help declaration and any other help declaration whose
\* annotations come to the same lacking_permissions, lacking_role and
\* wrong_channel carry the same generated text for direct messages and the
\* same generated text for guilds, wherever the tip annotations stand among
\* the facet annotations and whatever lacking_ownership is.
C14_TipFromFinalFacets ==
    (Done /\ Emitted /\ macro = "help") =>
        LET final == run_attributes("help", defaults, Attrs, 1).options
        IN  \A g \in FacetOutcomes :
                ( /\ g.lacking_permissions = final.lacking_permissions
                  /\ g.lacking_role = final.lacking_role
                  /\ g.wrong_channel = final.wrong_channel ) =>
                    \A fd \in TipFields :
                        (fd \in g.generated /\ final[fd] = Some("")) =>
                            EmittedValue(fd) = g.tips[fd]

\* A help whose tip annotations come first, followed by lacking_role =
\* nothing and lacking_ownership = strike, is emitted with the text of
\* permissions and channel only.
C14_Witness ==
    /\ Done /\ Emitted /\ macro = "help"
    /\ Attrs = <<Attribute("strikethrough_commands_tip_in_dm", Flag),
                 Attribute("strikethrough_commands_tip_in_guild", Flag),
                 Attribute("lacking_role", Scalar(Str("nothing"))),
                 Attribute("lacking_ownership", Scalar(Str("strike")))>>
    /\ EmittedValue("strikethrough_commands_tip_in_dm")
          = Some(StrikePrefix \o " require permissions, or are limited to direct messages.")
    /\ EmittedValue("strikethrough_commands_tip_in_guild")
          = Some(StrikePrefix \o " require permissions, or are limited to guild messages.")

(***************************************************************************)
(* group! and group_options! (lib.rs:662-802).  The options block of a     *)
(* group is a sequence of `key: value` entries; `inherit` names an options *)
(* record declared earlier in the build, whose fields are the values the   *)
(* block starts from.  One run of either macro is one behaviour of         *)
(* SpecGroup; the variable fun holds the literal block the macro is given. *)
(***************************************************************************)
GROUP         == "GROUP"
GROUP_OPTIONS == "GROUP_OPTIONS"

\* GroupOptions::default(): owner_privilege and help_available are true by
\* default (lib.rs:722-730)
GroupOptions_default ==
    [prefixes |-> <<>>, allowed_roles |-> <<>>, only_in |-> "none",
     owners_only |-> FALSE, owner_privilege |-> TRUE, help_available |-> TRUE,
     checks |-> <<>>, required_permissions |-> 0, default_command |-> None,
     description |-> None]

\* The keys of the options block (lib.rs:708-749); `inherit` is kept apart.
GroupKeys ==
    {"prefixes", "allowed_roles", "only", "owner_only", "owner_privilege",
     "help_available", "checks", "required_permissions", "default_command",
     "prefix", "description"}

\* The field of GroupOptions a key assigns
GroupField(k) ==
    CASE k = "only"       -> "only_in"
      [] k = "owner_only" -> "owners_only"
      [] k = "prefix"     -> "prefixes"
      [] OTHER            -> k

\* The type each key is coerced to (lib.rs:708-749)
GroupKeyType(k) ==
    CASE k \in {"prefixes", "allowed_roles"}                         -> "VecString"
      [] k = "only"                                                  -> "OnlyIn"
      [] k \in {"owner_only", "owner_privilege", "help_available"}   -> "bool"
      [] k \in {"checks", "required_permissions"}                    -> "VecIdent"
      [] k = "default_command"                                       -> "Ident"
      [] OTHER                                                       -> "String"

\* The value a key's field takes from the coerced value
GroupValue(k, v) ==
    CASE k \in {"default_command", "description"} -> Some(Coerce(GroupKeyType(k), v))
      [] k = "prefix"                             -> <<String_parse(v)>>
      [] OTHER                                    -> Coerce(GroupKeyType(k), v)

\* a local entry that leaves a field alone once the field differs from the
\* schema default
group_option_keep_inherited(opts, e) ==
    LET k == e.name
        v == e.value
    IN  IF k \notin GroupKeys THEN Fail(Err("InvalidAttribute", k), opts)
        ELSE IF ~Coerce_ok(GroupKeyType(k), v) THEN ShapeMismatch(k, opts)
        ELSE IF k = "required_permissions"
        THEN LET r == ResolvePermissions(VecIdent_parse(v), 1, 0)
             IN  IF r.err # NoError THEN Fail(r.err, opts)
                 ELSE Ok([opts EXCEPT !.required_permissions = r.bits])
        ELSE IF opts[GroupField(k)] # GroupOptions_default[GroupField(k)]
        THEN Ok(opts)
        ELSE Ok([opts EXCEPT ![GroupField(k)] = GroupValue(k, v)])

\* One `key: value` entry of the options block: the key is looked up, the
\* value coerced and assigned to the key's field, replacing what the field
\* held.
group_option(opts, e) ==
    LET k == e.name
        v == e.value
    IN  IF k \notin GroupKeys THEN Fail(Err("InvalidAttribute", k), opts)
        ELSE IF ~Coerce_ok(GroupKeyType(k), v) THEN ShapeMismatch(k, opts)
        ELSE IF k = "required_permissions"
        THEN LET r == ResolvePermissions(VecIdent_parse(v), 1, 0)
             IN  IF r.err # NoError THEN Fail(r.err, opts)
                 ELSE Ok([opts EXCEPT !.required_permissions = r.bits])
        ELSE Ok([opts EXCEPT ![GroupField(k)] = GroupValue(k, v)])

RECURSIVE group_options_block(_, _, _)
\* the entries of the block from entry i on, applied in order
group_options_block(opts, entries, i) ==
    IF i > Len(entries) THEN Ok(opts)
    ELSE LET r == group_option(opts, entries[i])
         IN  IF r.err # NoError THEN r
             ELSE group_options_block(r.options, entries, i + 1)

\* One `key: value` entry
Entry(k, v) == [name |-> k, value |-> v]

\* The literal block given to group! or group_options!
GroupLiteral(n, inherit, entries, commands, sub) ==
    [name |-> n, inherit |-> inherit, options |-> entries,
     commands |-> commands, sub |-> sub]

\* The options records declared earlier in the build with group_options!,
\* by name: the blocks they were declared with.
StandaloneOptions ==
    [n \in {"base", "plain", "dm"} |->
        CASE n = "base" ->
               <<Entry("only", Scalar(Str("guilds"))),
                 Entry("owner_privilege", Scalar(Bool(FALSE))),
                 Entry("description", Scalar(Str("base"))),
                 Entry("prefixes", List(<<Str("b")>>)),
                 Entry("allowed_roles", List(<<Str("mod")>>)),
                 Entry("required_permissions", List(<<Id("KICK_MEMBERS")>>))>>
          [] n = "dm" ->
               <<Entry("only", Scalar(Str("dms"))),
                 Entry("owner_only", Scalar(Bool(TRUE))),
                 Entry("help_available", Scalar(Bool(FALSE))),
                 Entry("default_command", Scalar(Id("wins"))),
                 Entry("checks", List(<<Id("owner_check")>>))>>
          [] OTHER -> <<>>]

\* The record an earlier group_options! resolved to
Resolved(ref) ==
    group_options_block(GroupOptions_default, StandaloneOptions[ref], 1).options

\* `inherit`: the record the block starts from is the schema default, or a
\* copy of every field of the referenced record; a name no earlier
\* declaration resolved is an error.
inherit(f) ==
    IF f.inherit = None THEN Ok(GroupOptions_default)
    ELSE IF f.inherit[1] \in DOMAIN StandaloneOptions
    THEN Ok(Resolved(f.inherit[1]))
    ELSE Fail(Err("DuplicateOrMissingReference", f.inherit[1]), GroupOptions_default)

RECURSIVE with_suffixes(_, _, _)
\* every identifier of a list with the suffix
with_suffixes(ids, suffix, i) ==
    IF i > Len(ids) THEN <<>>
    ELSE <<with_suffix(ids[i], suffix)>> \o with_suffixes(ids, suffix, i + 1)

\* lib.rs:793-799: `pub static #name: GroupOptions = #options;`
group_options_quote(f, opts) ==
    <<[kind   |-> "options",
       cfgs   |-> <<>>,
       symbol |-> with_suffix(f.name, GROUP_OPTIONS),
       value  |-> opts]>>

\* Group::into_token_stream (lib.rs:760): the options record and the group
\* record naming it, its commands and its sub-groups
group_quote(f, opts) ==
    group_options_quote(f, opts)
    \o <<[kind   |-> "group",
          cfgs   |-> <<>>,
          symbol |-> with_suffix(f.name, GROUP),
          value  |-> [name |-> f.name,
                      options |-> with_suffix(f.name, GROUP_OPTIONS),
                      commands |-> with_suffixes(f.commands, COMMAND, 1),
                      sub_groups |-> with_suffixes(f.sub, GROUP, 1)]]>>

\* The blocks' local entries
GroupEntries ==
    {Entry("only", Scalar(Str("dms"))),
     Entry("only", Scalar(Str("guilds"))),
     Entry("only", Scalar(Str("everywhere"))),
     Entry("owner_only", Scalar(Bool(TRUE))),
     Entry("owner_privilege", Scalar(Bool(TRUE))),
     Entry("owner_privilege", Scalar(Bool(FALSE))),
     Entry("help_available", Scalar(Bool(TRUE))),
     Entry("description", Scalar(Str("local"))),
     Entry("default_command", Scalar(Id("losses"))),
     Entry("prefix", Scalar(Str("p"))),
     Entry("allowed_roles", List(<<Str("admin")>>)),
     Entry("required_permissions", List(<<Id("BAN_MEMBERS")>>)),
     Entry("required_permissions", List(<<Id("BOGUS")>>)),
     Entry("foo", Scalar(Bool(TRUE)))}

\* What a block inherits from: nothing, a declared record, an unknown name
Inherits == {None, Some("base"), Some("plain"), Some("dm"), Some("missing")}

\* group! and group_options! over every block of up to MaxAttrs entries
GroupDecls ==
    {Decl(m, NoAttr,
          GroupLiteral("wins", i, es,
                       IF m = "group" THEN <<"wins", "losses">> ELSE <<>>,
                       IF m = "group" THEN <<"stats">> ELSE <<>>)) :
        m \in {"group", "group_options"}, i \in Inherits,
        es \in SeqsUpTo(GroupEntries, MaxAttrs)}

InitGroup ==
    \E d \in GroupDecls :
        /\ macro = d.macro
        /\ attr = d.attr
        /\ fun = d.fun
        /\ pc = "parse"
        /\ idx = 1
        /\ name = <<>>
        /\ defaults = GroupOptions_default
        /\ options = defaults
        /\ out = Nothing

\* lib.rs:758, 791: the block is parsed; the options start from the record
\* `inherit` gives
GroupParse ==
    /\ macro \in {"group", "group_options"} /\ pc = "parse"
    /\ LET r == inherit(fun)
       IN  IF r.err # NoError
           THEN /\ out' = Error(r.err)
                /\ pc' = "done"
                /\ UNCHANGED <<defaults, options>>
           ELSE /\ defaults' = r.options
                /\ options' = r.options
                /\ pc' = "attributes"
                /\ UNCHANGED out
    /\ UNCHANGED <<macro, attr, fun, idx, name>>

\* one entry of the options block is applied
GroupLoop ==
    /\ macro \in {"group", "group_options"}
    /\ pc = "attributes" /\ idx <= Len(fun.options)
    /\ LET r == group_option(options, fun.options[idx])
       IN  IF r.err # NoError
           THEN /\ out' = Error(r.err)
                /\ pc' = "done"
                /\ UNCHANGED <<options, idx>>
           ELSE /\ options' = r.options
                /\ idx' = idx + 1
                /\ UNCHANGED <<out, pc>>
    /\ UNCHANGED <<macro, attr, fun, name, defaults>>

\* lib.rs:760: the group's records are emitted
GroupFinish ==
    /\ macro = "group" /\ pc = "attributes" /\ idx > Len(fun.options)
    /\ out' = Emit(group_quote(fun, options))
    /\ pc' = "done"
    /\ UNCHANGED <<macro, attr, fun, idx, name, options, defaults>>

\* lib.rs:793-801: the options record is emitted under the suffixed name
GroupOptionsFinish ==
    /\ macro = "group_options" /\ pc = "attributes" /\ idx > Len(fun.options)
    /\ out' = Emit(group_options_quote(fun, options))
    /\ pc' = "done"
    /\ UNCHANGED <<macro, attr, fun, idx, name, options, defaults>>

NextGroup ==
    \/ GroupParse
    \/ GroupLoop
    \/ GroupFinish
    \/ GroupOptionsFinish

SpecGroup == InitGroup /\ [][NextGroup]_vars

\* The fields of GroupOptions holding one value or one flag
ScalarFields ==
    {"only_in", "owners_only", "owner_privilege", "help_available",
     "default_command", "description"}

\* the entries of the block that assign field fd
LocalEntries(fd) ==
    {i \in 1..Len(fun.options) : GroupField(fun.options[i].name) = fd}

\* the last entry of the block that assigns field fd
LastLocal(fd) ==
    CHOOSE i \in LocalEntries(fd) : \A j \in LocalEntries(fd) : j <= i

\* C11: a group (or a standalone options record) that inherits from an
\* already-resolved record and is emitted holds, in every field its block
\* does not set, the value of the inherited record, and in every scalar or
\* flag field its block sets, the value the block gives it (the last one,
\* when the block sets it more than once).
C11_GroupInheritance ==
    (Done /\ Emitted /\ fun.inherit # None) =>
        LET base == Resolved(fun.inherit[1])
            res  == out.items[1].value
        IN  /\ \A fd \in DOMAIN GroupOptions_default :
                  LocalEntries(fd) = {} => res[fd] = base[fd]
            /\ \A fd \in ScalarFields :
                  LocalEntries(fd) # {} =>
                      LET e == fun.options[LastLocal(fd)]
                      IN  res[fd] = GroupValue(e.name, e.value)

\* A group inheriting from `base` (only_in = "guilds", a description, no
\* owner privilege) that sets only: "dms" and owner_privilege: true is
\* emitted with only_in = "dms", the privilege, and the base's description.
C11_Witness ==
    /\ Done /\ Emitted /\ macro = "group"
    /\ fun.inherit = Some("base")
    /\ Resolved("base").only_in = "guilds"
    /\ fun.options = <<Entry("only", Scalar(Str("dms"))),
                       Entry("owner_privilege", Scalar(Bool(TRUE)))>>
    /\ out.items[1].value.only_in = "dms"
    /\ out.items[1].value.owner_privilege = TRUE
    /\ out.items[1].value.description = Some("base")
    /\ out.items[1].value.prefixes = <<"b">>

====
